---- MODULE Spec2Model ----
(***************************************************************************)
(* Bill discovery and de-duplication pipeline of FederalBillBot.           *)
(*                                                                         *)
(* A scan cycle is monitor_and_process_bills (congress_x/monitor.py):      *)
(* fetch_recent_bills, the bill_exists pre-check per bill, the hand-off to *)
(* XPoster, which posts the batch to X and then stores every bill with     *)
(* XPoster.store_in_database (congress_x/x_poster.py).  Several cycles may *)
(* run as separate processes against the same `bills` table.               *)
(***************************************************************************)
EXTENDS Integers, Sequences, FiniteSets, TLC

\* ---- program constants --------------------------------------------------
CongressId == 119
HRFallbackStart == 7500
HRRangeStop == 6800
SFallbackStart == 500
SRangeStop == 0
StartBuffer == 100
FetchLimit == 250

\* ---- bounds of the model ------------------------------------------------
MaxCycles == 2

Procs == {1, 2}

BillTypes == {"HR", "S"}

\* A bill key is <<congress, type, number>>.
Keys == { <<119, "HR", 7450>>, <<119, "S", 450>>, <<119, "S", 520>> }

UpstreamStates == {"absent", "introduced", "passed", "old"}

VARIABLES
    db,                 \* the `bills` table: key -> sequence of records
    upstream,           \* congress.gov: key -> state of the bill upstream
    pc,                 \* per process: position inside the scan cycle
    bills,              \* per process: result of fetch_recent_bills
    idx,                \* per process: loop index (guard loop / store loop)
    house_bills,        \* per process: house_bills_to_process
    senate_bills,       \* per process: senate_bills_to_process
    post_to_x,          \* per process: argument of the cycle
    aggregate_all,      \* per process: argument of the cycle
    bills_data,         \* per process: de-duplicated batch inside XPoster
    posting_successful, \* per process: flag of process_bills_into_posts
    published,          \* key -> number of main tweets that covered the bill
    trueCnt,            \* key -> number of store_in_database calls returning True
    falseCnt,           \* key -> number of store_in_database calls returning False
    stored,             \* per process: keys inserted by the current cycle
    errs,               \* per process: keys whose store read/write failed this cycle
    dupes,              \* per process: keys this cycle skipped as already stored
    prev,               \* per process: summary of the cycle before the current one
    ncycles,            \* number of cycles started so far
    call,               \* one call of a function on its own: name, arguments, result
    fpc,                \* HR scan of fetch_recent_bills: "off", "scan", "blocked", "returned"
    highest,            \* HR scan: the highest HR number that exists upstream
    bill_num,           \* HR scan: loop variable of `for bill_num in range(...)`
    all_bills,          \* HR scan: numbers of the bills appended to all_bills
    consecutive_not_found, \* HR scan: the counter of that name
    scan_log,           \* HR scan: what the scan logged about the last candidate
    response,           \* HR scan: what upstream answered to the last requests
    failed,             \* HR scan: candidates whose fetch failed or record was malformed
    mpc,                \* continuous mode of main: "off", "top", "scan", "wait", "stopped"
    clock,              \* continuous mode: time.time() // monitoring_interval
    cli_post_to_x,      \* continuous mode: "--post-to-x" was given
    last_post_cycle,    \* continuous mode: the variable of that name (NoPostCycle: None)
    current_cycle,      \* continuous mode: the variable of that name
    should_post_to_x,   \* continuous mode: the variable of that name
    cycle_result,       \* continuous mode: how the last scan ended: "returned", "raised"
    stopped_by          \* continuous mode: what ended the loop: "user", "error"

\* the variables of the scan cycles
pipeline == << db, upstream, pc, bills, idx, house_bills, senate_bills, post_to_x,
               aggregate_all, bills_data, posting_successful, published, trueCnt,
               falseCnt, stored, errs, dupes, prev, ncycles >>

\* the variables outside the scan cycles
fetching == << fpc, highest, bill_num, all_bills, consecutive_not_found,
              scan_log, response, failed >>

looping == << mpc, clock, cli_post_to_x, last_post_cycle, current_cycle,
             should_post_to_x, cycle_result, stopped_by >>

aux == << call, fetching, looping >>

vars == << db, upstream, pc, bills, idx, house_bills, senate_bills, post_to_x,
           aggregate_all, bills_data, posting_successful, published, trueCnt,
           falseCnt, stored, errs, dupes, prev, ncycles, call, fetching, looping >>

\* the variables of the process-local cycle state, and the observation variables
storeObs == << published, trueCnt, falseCnt >>
history == << prev, ncycles >>

\* ---- helpers ------------------------------------------------------------
Min(a, b) == IF a <= b THEN a ELSE b

MaxOf(S) == CHOOSE n \in S : \A m \in S : m <= n

SeqRange(s) == { s[i] : i \in 1..Len(s) }

\* ---- the store (sqlite/new_Legislation_log.py) --------------------------
\* bill_exists(conn, congress, bill_number, bill_type)
bill_exists(d, k) == Len(d[k]) > 0

\* variant: the table has no UNIQUE constraint, every insert adds a record
log_bill_from_data_no_unique(d, k, rec) ==
    << TRUE, [d EXCEPT ![k] = Append(@, rec)] >>

\* log_bill_from_data(db_data): insert under the UNIQUE key constraint.
\* The result is <<ok, table'>>; a second record for a key is refused.
log_bill_from_data(d, k, rec) ==
    IF Len(d[k]) > 0
    THEN << FALSE, d >>
    ELSE << TRUE, [d EXCEPT ![k] = Append(@, rec)] >>

\* ---- monitor.py ---------------------------------------------------------
\* variant: the start is the highest recorded number itself
get_dynamic_start_number_no_buffer(d, bill_type, fallback_start, fails) ==
    LET nums == { k[3] : k \in { x \in Keys : /\ x[2] = bill_type
                                              /\ x[1] = CongressId
                                              /\ Len(d[x]) > 0 } }
    IN  IF fails \/ nums = {} \/ MaxOf(nums) = 0
        THEN fallback_start
        ELSE MaxOf(nums)

\* get_dynamic_start_number(bill_type, fallback_start); `fails` = the query raised
get_dynamic_start_number(d, bill_type, fallback_start, fails) ==
    LET nums == { k[3] : k \in { x \in Keys : /\ x[2] = bill_type
                                              /\ x[1] = CongressId
                                              /\ Len(d[x]) > 0 } }
    IN  IF fails \/ nums = {} \/ MaxOf(nums) = 0
        THEN fallback_start
        ELSE MaxOf(nums) + StartBuffer

FallbackStart(t) == IF t = "HR" THEN HRFallbackStart ELSE SFallbackStart

RangeStop(t) == IF t = "HR" THEN HRRangeStop ELSE SRangeStop

\* One downward scan `for bill_num in range(start_num, stop, -1)` of a type:
\* a bill whose detail/actions fetch failed (missed) or that does not exist is
\* skipped, a bill introduced inside the look-back window is appended, the
\* first bill older than the window ends the scan of the type.
ScanType(up, t, start, missed) ==
    LET visible(k) == /\ k[2] = t /\ k[1] = CongressId
                      /\ k[3] <= start /\ k[3] > RangeStop(t)
                      /\ up[k] # "absent" /\ k \notin missed
    IN  { k \in Keys : /\ visible(k)
                       /\ up[k] \in {"introduced", "passed"}
                       /\ ~ \E o \in Keys : /\ visible(o) /\ o[3] > k[3]
                                            /\ up[o] = "old" }

\* rank of the type strings in Python's string order
TypeRank(t) ==
    CASE t = "HCONRES" -> 1 [] t = "HJRES" -> 2 [] t = "HR" -> 3
      [] t = "HRES" -> 4 [] t = "S" -> 5 [] t = "SCONRES" -> 6
      [] t = "SJRES" -> 7 [] t = "SRES" -> 8

\* variant: numbers ascending within a type
SortsBefore_ascending(a, b) ==
    IF a[2] = "HR" /\ b[2] = "HR" THEN a[3] < b[3]
    ELSE IF a[2] = "HR" THEN TRUE
    ELSE IF b[2] = "HR" THEN FALSE
    ELSE \/ TypeRank(a[2]) < TypeRank(b[2])
         \/ TypeRank(a[2]) = TypeRank(b[2]) /\ a[3] < b[3]

\* sort of fetch_recent_bills: HR bills first, descending by number, then the
\* other bills by type ascending and number descending
SortsBefore(a, b) ==
    IF a[2] = "HR" /\ b[2] = "HR" THEN a[3] > b[3]
    ELSE IF a[2] = "HR" THEN TRUE
    ELSE IF b[2] = "HR" THEN FALSE
    ELSE \/ TypeRank(a[2]) < TypeRank(b[2])
         \/ TypeRank(a[2]) = TypeRank(b[2]) /\ a[3] > b[3]

RECURSIVE SortBills(_)
SortBills(S) ==
    IF S = {} THEN << >>
    ELSE LET m == CHOOSE x \in S : \A y \in S \ {x} : SortsBefore(x, y)
         IN  << m >> \o SortBills(S \ {m})

\* fetch_recent_bills(api_key, limit=250, days_back=7)
fetch_recent_bills(d, up, missed, qfail) ==
    LET found == UNION { ScanType(up, t,
                            get_dynamic_start_number(d, t, FallbackStart(t), t \in qfail),
                            missed) : t \in BillTypes }
        sorted_bills == SortBills(found)
    IN  SubSeq(sorted_bills, 1, Min(FetchLimit, Len(sorted_bills)))

IsHouse(t) == t \in {"HR", "HRES", "HJRES", "HCONRES"}

\* ---- x_poster.py --------------------------------------------------------
formatted_bill_number(k) == << k[2], k[3] >>

\* the formatted_bill_number of a bill that has none: `bill.get(..., '')`
NoBillId == << "", 0 >>

\* variant: a bill is dropped when a later bill has its formatted_bill_number
IsDuplicate_of_later(id, seen_bills, rest) ==
    \E i \in 1..Len(rest) : formatted_bill_number(rest[i]) = id

\* `bill_id not in seen_bills`, negated; rest: the bills behind this one
IsDuplicate(id, seen_bills, rest) == id \in seen_bills

\* de-duplication at the head of process_bills_into_posts and of
\* create_multiple_bills_pngs: a bill without formatted_bill_number is kept
RECURSIVE Dedup(_, _)
Dedup(s, seen) ==
    IF s = << >> THEN << >>
    ELSE LET id == formatted_bill_number(Head(s))
         IN  IF id = NoBillId THEN << Head(s) >> \o Dedup(Tail(s), seen)
             ELSE IF IsDuplicate(id, seen, Tail(s)) THEN Dedup(Tail(s), seen)
             ELSE << Head(s) >> \o Dedup(Tail(s), seen \cup {id})

\* post_bills_as_thread(house_bills, senate_bills, ...): the batch XPoster works on
post_bills_as_thread(house, senate) == Dedup(house \o senate, {})

\* ---- initial state ------------------------------------------------------
\* kind: how the cycle before ended ("none", "completed", "interrupted");
\* unchanged: upstream has not changed since; clean: no store read or write
\* failed in it; bills: what it fetched; pending: the bills it fetched and left
\* without a record when it was interrupted; rerun: the current cycle directly
\* follows a completed cycle with upstream unchanged.
NoPrev == [kind |-> "none", unchanged |-> FALSE, clean |-> FALSE, bills |-> {},
           pending |-> {}, rerun |-> FALSE]

\* no function is being called on its own
NoCall == [fn |-> "none"]

\* fetch_recent_bills is not being followed step by step
FetchAtRest ==
    /\ fpc = "off"
    /\ highest = HRRangeStop
    /\ bill_num = HRRangeStop
    /\ all_bills = {}
    /\ consecutive_not_found = 0
    /\ scan_log = "none"
    /\ response = << "none", "none" >>
    /\ failed = {}

\* `last_post_cycle = None`
NoPostCycle == -1

\* main is not running in continuous mode
LoopAtRest ==
    /\ mpc = "off"
    /\ clock = 0
    /\ cli_post_to_x = FALSE
    /\ last_post_cycle = NoPostCycle
    /\ current_cycle = 0
    /\ should_post_to_x = FALSE
    /\ cycle_result = "none"
    /\ stopped_by = "none"

AuxAtRest == call = NoCall /\ FetchAtRest /\ LoopAtRest

Init ==
    /\ AuxAtRest
    /\ db = [k \in Keys |-> << >>]
    /\ upstream = [k \in Keys |-> "absent"]
    /\ pc = [p \in Procs |-> "idle"]
    /\ bills = [p \in Procs |-> << >>]
    /\ idx = [p \in Procs |-> 1]
    /\ house_bills = [p \in Procs |-> << >>]
    /\ senate_bills = [p \in Procs |-> << >>]
    /\ post_to_x = [p \in Procs |-> FALSE]
    /\ aggregate_all = [p \in Procs |-> FALSE]
    /\ bills_data = [p \in Procs |-> << >>]
    /\ posting_successful = [p \in Procs |-> FALSE]
    /\ published = [k \in Keys |-> 0]
    /\ trueCnt = [k \in Keys |-> 0]
    /\ falseCnt = [k \in Keys |-> 0]
    /\ stored = [p \in Procs |-> {}]
    /\ errs = [p \in Procs |-> {}]
    /\ dupes = [p \in Procs |-> {}]
    /\ prev = [p \in Procs |-> NoPrev]
    /\ ncycles = 0

\* ---- upstream (congress.gov) --------------------------------------------
UpstreamFrame ==
    /\ prev' = [p \in Procs |-> [prev[p] EXCEPT !.unchanged = FALSE]]
    /\ UNCHANGED << db, pc, bills, idx, house_bills, senate_bills, post_to_x,
                    aggregate_all, bills_data, posting_successful, storeObs,
                    stored, errs, dupes, ncycles >>
    /\ UNCHANGED aux

\* a bill is introduced
Introduce(k) ==
    /\ upstream[k] = "absent"
    /\ upstream' = [upstream EXCEPT ![k] = "introduced"]
    /\ UpstreamFrame

\* the latest action of a bill becomes a later-stage action
Progress(k) ==
    /\ upstream[k] = "introduced"
    /\ upstream' = [upstream EXCEPT ![k] = "passed"]
    /\ UpstreamFrame

\* time passes: the introduction date leaves the look-back window
AgeOut(k) ==
    /\ upstream[k] \in {"introduced", "passed"}
    /\ upstream' = [upstream EXCEPT ![k] = "old"]
    /\ UpstreamFrame

\* ---- monitor_and_process_bills ------------------------------------------
\* entry: fetch_recent_bills; `if not bills: return 0, False`
StartCycle(p, ptx, agg, missed, qfail) ==
    /\ pc[p] = "idle"
    /\ ncycles < MaxCycles
    /\ LET fetched == fetch_recent_bills(db, upstream, missed, qfail)
       IN  /\ bills' = [bills EXCEPT ![p] = fetched]
           /\ pc' = [pc EXCEPT ![p] = IF fetched = << >> THEN "done" ELSE "guard"]
    /\ idx' = [idx EXCEPT ![p] = 1]
    /\ house_bills' = [house_bills EXCEPT ![p] = << >>]
    /\ senate_bills' = [senate_bills EXCEPT ![p] = << >>]
    /\ post_to_x' = [post_to_x EXCEPT ![p] = ptx]
    /\ aggregate_all' = [aggregate_all EXCEPT ![p] = agg]
    /\ bills_data' = [bills_data EXCEPT ![p] = << >>]
    /\ posting_successful' = [posting_successful EXCEPT ![p] = FALSE]
    /\ stored' = [stored EXCEPT ![p] = {}]
    /\ errs' = [errs EXCEPT ![p] = {}]
    /\ dupes' = [dupes EXCEPT ![p] = {}]
    /\ prev' = [prev EXCEPT ![p] =
                  [prev[p] EXCEPT !.rerun = (prev[p].kind = "completed" /\ prev[p].unchanged)]]
    /\ ncycles' = ncycles + 1
    /\ UNCHANGED << db, upstream, storeObs >>
    /\ UNCHANGED aux

\* variant: the result of bill_exists is ignored
GuardDecision_always_take(d, agg, k, read_ok) ==
    IF agg THEN "take"
    ELSE IF ~ read_ok THEN "skip_err"
    ELSE "take"

\* variant: the test is inverted (`if not exists: continue`)
GuardDecision_inverted(d, agg, k, read_ok) ==
    IF agg THEN "take"
    ELSE IF ~ read_ok THEN "skip_err"
    ELSE IF ~ bill_exists(d, k) THEN "skip_dup"
    ELSE "take"

\* what the guard loop decides for one bill: "skip_dup", "skip_err" or "take"
GuardDecision(d, agg, k, read_ok) ==
    IF agg THEN "take"
    ELSE IF ~ read_ok THEN "skip_err"
    ELSE IF bill_exists(d, k) THEN "skip_dup"
    ELSE "take"

\* one iteration of `for bill in bills:`; after the last bill the batch is
\* handed to XPoster, or the cycle ends with "No new bills to process"
GuardStep(p, read_ok) ==
    /\ pc[p] = "guard"
    /\ LET k == bills[p][idx[p]]
           dec == GuardDecision(db, aggregate_all[p], k, read_ok)
           house == IF dec = "take" /\ IsHouse(k[2])
                    THEN Append(house_bills[p], k) ELSE house_bills[p]
           senate == IF dec = "take" /\ ~ IsHouse(k[2])
                     THEN Append(senate_bills[p], k) ELSE senate_bills[p]
           last == idx[p] = Len(bills[p])
       IN  /\ house_bills' = [house_bills EXCEPT ![p] = house]
           /\ senate_bills' = [senate_bills EXCEPT ![p] = senate]
           /\ errs' = [errs EXCEPT ![p] = IF dec = "skip_err" THEN @ \cup {k} ELSE @]
           /\ dupes' = [dupes EXCEPT ![p] = IF dec = "skip_dup" THEN @ \cup {k} ELSE @]
           /\ idx' = [idx EXCEPT ![p] = IF last THEN 1 ELSE @ + 1]
           /\ pc' = [pc EXCEPT ![p] =
                        IF ~ last THEN "guard"
                        ELSE IF house \o senate = << >> THEN "done" ELSE "post"]
           /\ bills_data' = [bills_data EXCEPT ![p] =
                        IF last THEN post_bills_as_thread(house, senate) ELSE @]
    /\ UNCHANGED << db, upstream, bills, post_to_x, aggregate_all,
                    posting_successful, storeObs, stored, history >>
    /\ UNCHANGED aux

\* ---- XPoster.process_bills_into_posts -----------------------------------
\* "Post to X.com": the main tweet is created (tweet_ok) or create_tweet raises
PostToX(p, tweet_ok) ==
    /\ pc[p] = "post"
    /\ LET ok == post_to_x[p] /\ tweet_ok
       IN  /\ posting_successful' = [posting_successful EXCEPT ![p] = ok]
           /\ published' = [k \in Keys |->
                             IF ok /\ k \in SeqRange(bills_data[p])
                             THEN published[k] + 1 ELSE published[k]]
    /\ pc' = [pc EXCEPT ![p] = "store_check"]
    /\ idx' = [idx EXCEPT ![p] = 1]
    /\ UNCHANGED << db, upstream, bills, house_bills, senate_bills, post_to_x,
                    aggregate_all, bills_data, trueCnt, falseCnt,
                    stored, errs, dupes, history >>
    /\ UNCHANGED aux

\* variant: no try/except around store_in_database, a raise ends the loop
StoreLoopNext_abort(result, i, n) ==
    IF result = "raise" \/ i = n THEN << "done", 1 >> ELSE << "store_check", i + 1 >>

\* `for bill_data, _ in formatted_bills: try: store_in_database ... except:
\* LOG.error`: whatever the result ("true", "false", "raise"), the loop moves
\* to the next bill; after the last one the cycle completes.  The value is the
\* next <<pc, idx>> of the process.
StoreLoopNext(result, i, n) ==
    IF i = n THEN << "done", 1 >> ELSE << "store_check", i + 1 >>

\* variant: the existence check is skipped
StoreCheckResult_no_check(d, k, read_ok) ==
    IF ~ read_ok THEN "raise" ELSE "go on"

\* variant: a failed existence check is swallowed and reported as "already exists"
StoreCheckResult_false_on_error(d, k, read_ok) ==
    IF ~ read_ok THEN "false"
    ELSE IF bill_exists(d, k) THEN "false"
    ELSE "go on"

\* result of the first half of store_in_database: "raise", "false" or "go on"
StoreCheckResult(d, k, read_ok) ==
    IF ~ read_ok THEN "raise"
    ELSE IF bill_exists(d, k) THEN "false"
    ELSE "go on"

\* store_in_database, lines 110-120: the bill_exists check on its own connection
StoreCheck(p, read_ok) ==
    /\ pc[p] = "store_check"
    /\ LET k == bills_data[p][idx[p]]
           r == StoreCheckResult(db, k, read_ok)
           nxt == StoreLoopNext(r, idx[p], Len(bills_data[p]))
       IN  /\ falseCnt' = [falseCnt EXCEPT ![k] = IF r = "false" THEN @ + 1 ELSE @]
           /\ errs' = [errs EXCEPT ![p] = IF r = "raise" THEN @ \cup {k} ELSE @]
           /\ dupes' = [dupes EXCEPT ![p] = IF r = "false" THEN @ \cup {k} ELSE @]
           /\ pc' = [pc EXCEPT ![p] = IF r = "go on" THEN "store_insert" ELSE nxt[1]]
           /\ idx' = [idx EXCEPT ![p] = IF r = "go on" THEN @ ELSE nxt[2]]
    /\ UNCHANGED << db, upstream, bills, house_bills, senate_bills, post_to_x,
                    aggregate_all, bills_data, posting_successful, published,
                    trueCnt, stored, history >>
    /\ UNCHANGED aux

\* variant: the exception of log_bill_from_data is swallowed, True is returned
StoreInsertResult_swallow(d, k, rec, write_ok) ==
    LET r == log_bill_from_data(d, k, rec)
    IN  IF write_ok /\ r[1] THEN << "true", r[2] >> ELSE << "true", d >>

\* variant: True is returned without the record having been written
StoreInsertResult_no_write(d, k, rec, write_ok) ==
    LET r == log_bill_from_data(d, k, rec)
    IN  IF write_ok /\ r[1] THEN << "true", d >> ELSE << "raise", d >>

\* result of the second half of store_in_database: <<"true" or "raise", table'>>
StoreInsertResult(d, k, rec, write_ok) ==
    LET r == log_bill_from_data(d, k, rec)
    IN  IF write_ok /\ r[1] THEN << "true", r[2] >> ELSE << "raise", d >>

\* store_in_database, lines 122-141: log_bill_from_data, then `return True`
StoreInsert(p, write_ok) ==
    /\ pc[p] = "store_insert"
    /\ LET k == bills_data[p][idx[p]]
           r == StoreInsertResult(db, k, [status |-> "Introduced"], write_ok)
           nxt == StoreLoopNext(r[1], idx[p], Len(bills_data[p]))
       IN  /\ db' = r[2]
           /\ trueCnt' = [trueCnt EXCEPT ![k] = IF r[1] = "true" THEN @ + 1 ELSE @]
           /\ stored' = [stored EXCEPT ![p] = IF r[1] = "true" THEN @ \cup {k} ELSE @]
           /\ errs' = [errs EXCEPT ![p] = IF r[1] = "raise" THEN @ \cup {k} ELSE @]
           /\ pc' = [pc EXCEPT ![p] = nxt[1]]
           /\ idx' = [idx EXCEPT ![p] = nxt[2]]
    /\ UNCHANGED << upstream, bills, house_bills, senate_bills, post_to_x,
                    aggregate_all, bills_data, posting_successful, published,
                    falseCnt, dupes, history >>
    /\ UNCHANGED aux

\* the cycle-local state is dropped when the cycle returns or is stopped
DropLocals(p) ==
    /\ pc' = [pc EXCEPT ![p] = "idle"]
    /\ bills' = [bills EXCEPT ![p] = << >>]
    /\ idx' = [idx EXCEPT ![p] = 1]
    /\ house_bills' = [house_bills EXCEPT ![p] = << >>]
    /\ senate_bills' = [senate_bills EXCEPT ![p] = << >>]
    /\ post_to_x' = [post_to_x EXCEPT ![p] = FALSE]
    /\ aggregate_all' = [aggregate_all EXCEPT ![p] = FALSE]
    /\ bills_data' = [bills_data EXCEPT ![p] = << >>]
    /\ posting_successful' = [posting_successful EXCEPT ![p] = FALSE]
    /\ stored' = [stored EXCEPT ![p] = {}]
    /\ errs' = [errs EXCEPT ![p] = {}]
    /\ dupes' = [dupes EXCEPT ![p] = {}]
    /\ UNCHANGED aux

\* `return processed_count, posting_occurred`: the cycle is complete
Return(p) ==
    /\ pc[p] = "done"
    /\ DropLocals(p)
    /\ prev' = [prev EXCEPT ![p] =
                  IF aggregate_all[p] THEN NoPrev
                  ELSE [kind |-> "completed", unchanged |-> TRUE,
                        clean |-> errs[p] = {}, bills |-> SeqRange(bills[p]),
                        pending |-> {}, rerun |-> FALSE]]
    /\ UNCHANGED << db, upstream, storeObs, ncycles >>

\* the process is stopped (Ctrl+C, shutdown) in the middle of a cycle
Interrupt(p) ==
    /\ pc[p] \in {"guard", "post", "store_check", "store_insert"}
    /\ DropLocals(p)
    /\ prev' = [prev EXCEPT ![p] =
                  [kind |-> "interrupted", unchanged |-> TRUE, clean |-> FALSE,
                   bills |-> {},
                   pending |-> { k \in SeqRange(bills[p]) : db[k] = << >> },
                   rerun |-> FALSE]]
    /\ UNCHANGED << db, upstream, storeObs, ncycles >>

\* every step one process can take inside a cycle
CycleStep(p) ==
    \/ \E read_ok \in BOOLEAN : GuardStep(p, read_ok)
    \/ \E tweet_ok \in BOOLEAN : PostToX(p, tweet_ok)
    \/ \E read_ok \in BOOLEAN : StoreCheck(p, read_ok)
    \/ \E write_ok \in BOOLEAN : StoreInsert(p, write_ok)
    \/ Return(p)
    \/ Interrupt(p)

\* congress.gov changes.  The pipeline reads it only in fetch_recent_bills at
\* the start of a cycle, so a change during a cycle is the same as a change
\* just before the next fetch.
UpstreamStep ==
    /\ \A p \in Procs : pc[p] = "idle"
    /\ \/ \E k \in Keys : Introduce(k)
       \/ \E k \in Keys : Progress(k)
       \/ \E k \in Keys : AgeOut(k)

\* One monitor process running cycle after cycle in discovery mode (continuous
\* mode or repeated single runs), with upstream changes, fetch failures and
\* store failures.
Next ==
    \/ UpstreamStep
    \/ \E ptx \in BOOLEAN,
          missed \in SUBSET { k \in Keys : upstream[k] # "absent" },
          qfail \in SUBSET { t \in BillTypes : \E k \in Keys : k[2] = t /\ db[k] # << >> } :
            StartCycle(1, ptx, FALSE, missed, qfail)
    \/ CycleStep(1)

Spec == Init /\ [][Next]_vars

\* Two monitor processes (a manual run overlapping a scheduled run) against the
\* same table; every bill is upstream and inside the look-back window.
InitRace ==
    /\ AuxAtRest
    /\ upstream = [k \in Keys |-> "introduced"]
    /\ db = [k \in Keys |-> << >>]
    /\ pc = [p \in Procs |-> "idle"]
    /\ bills = [p \in Procs |-> << >>]
    /\ idx = [p \in Procs |-> 1]
    /\ house_bills = [p \in Procs |-> << >>]
    /\ senate_bills = [p \in Procs |-> << >>]
    /\ post_to_x = [p \in Procs |-> FALSE]
    /\ aggregate_all = [p \in Procs |-> FALSE]
    /\ bills_data = [p \in Procs |-> << >>]
    /\ posting_successful = [p \in Procs |-> FALSE]
    /\ published = [k \in Keys |-> 0]
    /\ trueCnt = [k \in Keys |-> 0]
    /\ falseCnt = [k \in Keys |-> 0]
    /\ stored = [p \in Procs |-> {}]
    /\ errs = [p \in Procs |-> {}]
    /\ dupes = [p \in Procs |-> {}]
    /\ prev = [p \in Procs |-> NoPrev]
    /\ ncycles = 0

NextRace ==
    \/ \E p \in Procs, ptx \in BOOLEAN, agg \in BOOLEAN :
            StartCycle(p, ptx, agg, {}, {})
    \/ \E p \in Procs : CycleStep(p)

SpecRace == InitRace /\ [][NextRace]_vars

\* ---- functions called on their own ---------------------------------------
\* no scan cycle is running and nothing has happened yet
PipelineAtRest ==
    /\ db = [k \in Keys |-> << >>]
    /\ upstream = [k \in Keys |-> "absent"]
    /\ pc = [p \in Procs |-> "idle"]
    /\ bills = [p \in Procs |-> << >>]
    /\ idx = [p \in Procs |-> 1]
    /\ house_bills = [p \in Procs |-> << >>]
    /\ senate_bills = [p \in Procs |-> << >>]
    /\ post_to_x = [p \in Procs |-> FALSE]
    /\ aggregate_all = [p \in Procs |-> FALSE]
    /\ bills_data = [p \in Procs |-> << >>]
    /\ posting_successful = [p \in Procs |-> FALSE]
    /\ published = [k \in Keys |-> 0]
    /\ trueCnt = [k \in Keys |-> 0]
    /\ falseCnt = [k \in Keys |-> 0]
    /\ stored = [p \in Procs |-> {}]
    /\ errs = [p \in Procs |-> {}]
    /\ dupes = [p \in Procs |-> {}]
    /\ prev = [p \in Procs |-> NoPrev]
    /\ ncycles = 0

\* a call that has its arguments and has not run yet
Pending(fn, arg) == [fn |-> fn, arg |-> arg, done |-> FALSE, res |-> << >>]

\* the call runs and leaves its result
Returns(fn, res) ==
    /\ call.fn = fn
    /\ ~ call.done
    /\ call' = [call EXCEPT !.done = TRUE, !.res = res]
    /\ UNCHANGED << pipeline, fetching, looping >>

\* the call of fn has returned
Returned(fn) == call.fn = fn /\ call.done

\* XPoster.process_bills_into_posts called with any list of bills: the
\* de-duplication at its head.  The bills of a list may be of any congress.
MaxBatch == 3

BatchKeys == { <<118, "HR", 1>>, <<119, "HR", 1>>, <<119, "HR", 2>>, <<119, "S", 1>> }

Batches == UNION { [1..n -> BatchKeys] : n \in 0..MaxBatch }

InitDedup ==
    /\ PipelineAtRest
    /\ FetchAtRest
    /\ LoopAtRest
    /\ call \in { Pending("process_bills_into_posts", b) : b \in Batches }

Deduplicate == Returns("process_bills_into_posts", Dedup(call.arg, {}))

SpecDedup == InitDedup /\ [][Deduplicate]_vars

\* the same with bills that have no formatted_bill_number among the others
AnyBatchKeys == BatchKeys \cup { <<119, "", 0>> }

AnyBatches == UNION { [1..n -> AnyBatchKeys] : n \in 0..MaxBatch }

InitDedupAny ==
    /\ PipelineAtRest
    /\ FetchAtRest
    /\ LoopAtRest
    /\ call \in { Pending("process_bills_into_posts", b) : b \in AnyBatches }

SpecDedupAny == InitDedupAny /\ [][Deduplicate]_vars

\* ---- find_introduction_action ---------------------------------------------
\* `introduction_codes` and `introduction_types` of find_introduction_action
introduction_codes == {"1000", "10000", "1025", "17000", "Intro-H", "Intro-S"}

introduction_types == {"Introduced", "Introduction"}

\* the strings of the model that, lower-cased, contain one of intro_keywords
\* ("intro", "introduced", "introduction", "refer")
IntroKeywordStrings ==
    {"IntroReferral", "Introduced", "Introduction", "Introduced in House",
     "Referred to the Committee on the Judiciary."}

\* the result `{}`: every .get() on it yields the default
EmptyAction == [type |-> "", actionCode |-> "", text |-> "", actionDate |-> 0]

IsCodedIntroReferral(a) == a.type = "IntroReferral" /\ a.actionCode \in introduction_codes

IsFloor17000(a) == a.type = "Floor" /\ a.actionCode = "17000"

IsIntroReferral(a) == a.type = "IntroReferral"

IsIntroducedType(a) == a.type \in introduction_types

HasIntroKeyword(a) == a.type \in IntroKeywordStrings \/ a.text \in IntroKeywordStrings

\* `xs.sort(key=actionDate); return xs[0]`: the sort is stable, so of the
\* actions with the smallest date the first of the list is returned
Earliest(xs) ==
    xs[CHOOSE i \in 1..Len(xs) :
          \A j \in 1..Len(xs) :
              /\ xs[i].actionDate <= xs[j].actionDate
              /\ xs[j].actionDate = xs[i].actionDate => i <= j]

\* variant: the literal introduction types are looked for before IntroReferral
find_introduction_action_types_first(actions) ==
    LET coded == SelectSeq(actions, IsCodedIntroReferral)
        priority_actions == IF coded # << >> THEN coded
                            ELSE SelectSeq(actions, IsFloor17000)
        intro_referral_actions == SelectSeq(actions, IsIntroReferral)
        fallback_actions == SelectSeq(actions, IsIntroducedType)
        keyword_actions == SelectSeq(actions, HasIntroKeyword)
    IN  IF priority_actions # << >> THEN Earliest(priority_actions)
        ELSE IF fallback_actions # << >> THEN Earliest(fallback_actions)
        ELSE IF intro_referral_actions # << >> THEN Earliest(intro_referral_actions)
        ELSE IF keyword_actions # << >> THEN keyword_actions[1]
        ELSE EmptyAction

find_introduction_action(actions) ==
    LET coded == SelectSeq(actions, IsCodedIntroReferral)
        priority_actions == IF coded # << >> THEN coded
                            ELSE SelectSeq(actions, IsFloor17000)
        intro_referral_actions == SelectSeq(actions, IsIntroReferral)
        fallback_actions == SelectSeq(actions, IsIntroducedType)
        keyword_actions == SelectSeq(actions, HasIntroKeyword)
    IN  IF priority_actions # << >> THEN Earliest(priority_actions)
        ELSE IF intro_referral_actions # << >> THEN Earliest(intro_referral_actions)
        ELSE IF fallback_actions # << >> THEN Earliest(fallback_actions)
        ELSE IF keyword_actions # << >> THEN keyword_actions[1]
        ELSE EmptyAction

\* the action lists the function is called with: up to MaxActions actions,
\* each of one of six kinds and dated on one of MaxDate days
MaxActions == 3

MaxDate == 2

ActionKinds ==
    { [type |-> "IntroReferral", actionCode |-> "1000", text |-> "Introduced in House"],
      [type |-> "IntroReferral", actionCode |-> "H11100",
       text |-> "Referred to the Committee on the Judiciary."],
      [type |-> "Floor", actionCode |-> "17000", text |-> "Submitted in Senate"],
      [type |-> "Introduced", actionCode |-> "", text |-> "Submitted in Senate"],
      [type |-> "Committee", actionCode |-> "H11100",
       text |-> "Referred to the Committee on the Judiciary."],
      [type |-> "Floor", actionCode |-> "H37300", text |-> "Passed House"] }

Actions ==
    { [type |-> k.type, actionCode |-> k.actionCode, text |-> k.text, actionDate |-> d] :
        k \in ActionKinds, d \in 1..MaxDate }

ActionLists == UNION { [1..n -> Actions] : n \in 0..MaxActions }

InitIntro ==
    /\ PipelineAtRest
    /\ FetchAtRest
    /\ LoopAtRest
    /\ call \in { Pending("find_introduction_action", l) : l \in ActionLists }

FindIntroduction ==
    Returns("find_introduction_action", find_introduction_action(call.arg))

SpecIntro == InitIntro /\ [][FindIntroduction]_vars

\* the same with actions that have no actionDate among the others: the sort
\* key `x.get("actionDate", "")` of such an action is the empty string, which
\* is below every date; it is date 0 here
NoActionDate == 0

AnyActions ==
    { [type |-> k.type, actionCode |-> k.actionCode, text |-> k.text, actionDate |-> d] :
        k \in ActionKinds, d \in {NoActionDate} \cup 1..MaxDate }

AnyActionLists == UNION { [1..n -> AnyActions] : n \in 0..MaxActions }

InitIntroAny ==
    /\ PipelineAtRest
    /\ FetchAtRest
    /\ LoopAtRest
    /\ call \in { Pending("find_introduction_action", l) : l \in AnyActionLists }

SpecIntroAny == InitIntroAny /\ [][FindIntroduction]_vars

\* ---- fetch_recent_bills: the HR scan, request by request -----------------
\* `max_consecutive_not_found = 10` of the HR scan
max_consecutive_not_found == 10

\* The scan is followed over its last MaxCandidates numbers, down to
\* HRRangeStop + 1; the numbers above them do not exist upstream yet and were
\* skipped as not found, which leaves all_bills empty and the counter at 0.
MaxCandidates == 11

HRCandidates == (HRRangeStop + 1)..(HRRangeStop + MaxCandidates)

\* what congress.gov can answer to the detail request for a candidate
DetailResponses(n) ==
    IF n <= highest THEN {"found", "transient", "hang"}
    ELSE {"404", "transient", "hang"}

\* what it can answer to the actions request: a list whose introduction action
\* is dated inside the look-back window, an error, a payload that makes
\* find_introduction_action or the date handling raise, a date that
\* fromisoformat rejects, or nothing at all
ActionsResponses == {"in_window", "transient", "malformed", "bad_date", "hang"}

\* get_bill_details: the bill, or {} on any exception
get_bill_details(resp) == IF resp = "found" THEN "bill" ELSE "empty"

\* get_bill_actions: the actions, or [] on any exception
get_bill_actions(resp) == IF resp = "transient" THEN "empty" ELSE resp

\* the branch the loop body takes for one candidate
ScanBranch(detail, actions) ==
    IF get_bill_details(detail) = "empty" THEN "not_found"
    ELSE IF get_bill_actions(actions) = "empty" THEN "no_intro"
    ELSE IF get_bill_actions(actions) = "bad_date" THEN "bad_date"
    ELSE IF get_bill_actions(actions) = "malformed" THEN "error"
    ELSE "found"

\* the scan starts; every HR number up to `highest` exists upstream and was
\* introduced inside the look-back window
InitFetch ==
    /\ PipelineAtRest
    /\ LoopAtRest
    /\ call = NoCall
    /\ fpc = "scan"
    /\ highest \in {HRRangeStop + MaxCandidates - 1, HRRangeStop + MaxCandidates}
    /\ bill_num = HRRangeStop + MaxCandidates
    /\ all_bills = {}
    /\ consecutive_not_found = 0
    /\ scan_log = "none"
    /\ response = << "none", "none" >>
    /\ failed = {}

\* one iteration of `for bill_num in range(start_num, 6800, -1)` in which both
\* requests return
VisitCandidate(detail, actions) ==
    /\ fpc = "scan"
    /\ detail \in DetailResponses(bill_num) \ {"hang"}
    /\ actions \in (IF detail = "found" THEN ActionsResponses \ {"hang"} ELSE {"none"})
    /\ LET branch == ScanBranch(detail, actions)
           cnt == IF branch = "found" THEN 0
                  ELSE IF branch = "error" THEN consecutive_not_found + 1
                  ELSE consecutive_not_found
           stop == (branch = "error" /\ cnt >= max_consecutive_not_found)
                     \/ bill_num - 1 = HRRangeStop
       IN  /\ all_bills' = IF branch = "found" THEN all_bills \cup {bill_num} ELSE all_bills
           /\ consecutive_not_found' = cnt
           /\ scan_log' = branch
           /\ failed' = IF detail = "transient" \/ actions \in {"transient", "malformed", "bad_date"}
                        THEN failed \cup {bill_num} ELSE failed
           /\ fpc' = IF stop THEN "returned" ELSE "scan"
           /\ bill_num' = bill_num - 1
    /\ response' = << detail, actions >>
    /\ UNCHANGED << pipeline, call, looping, highest >>

\* a request gets no answer: requests.get is called without a timeout and
\* does not return
RequestHangs(detail, actions) ==
    /\ fpc = "scan"
    /\ detail \in DetailResponses(bill_num)
    /\ actions \in (IF detail = "found" THEN {"hang"} ELSE {"none"})
    /\ "hang" \in {detail, actions}
    /\ fpc' = "blocked"
    /\ response' = << detail, actions >>
    /\ UNCHANGED << pipeline, call, looping, highest, bill_num, all_bills,
                    consecutive_not_found, scan_log, failed >>

NextFetch ==
    \/ \E detail \in {"found", "404", "transient"}, actions \in ActionsResponses \cup {"none"} :
            VisitCandidate(detail, actions)
    \/ \E detail \in {"found", "hang"}, actions \in {"hang", "none"} :
            RequestHangs(detail, actions)

SpecFetch == InitFetch /\ [][NextFetch]_vars

\* the scan takes every step it can take
FairSpecFetch == SpecFetch /\ WF_vars(NextFetch)

\* ---- main: continuous mode ----------------------------------------------
\* The clock counts monitoring intervals of 3 hours and is followed up to
\* MaxClock.
MaxClock == 3

InitMain ==
    /\ PipelineAtRest
    /\ FetchAtRest
    /\ call = NoCall
    /\ mpc = "top"
    /\ clock = 0
    /\ cli_post_to_x \in BOOLEAN
    /\ last_post_cycle = NoPostCycle
    /\ current_cycle = 0
    /\ should_post_to_x = FALSE
    /\ cycle_result = "none"
    /\ stopped_by = "none"

\* variant: posting is enabled whenever --post-to-x was given
BeginScan_every_scan ==
    /\ mpc = "top"
    /\ mpc' = "scan"
    /\ current_cycle' = clock
    /\ should_post_to_x' = cli_post_to_x
    /\ UNCHANGED << pipeline, call, fetching, clock, cli_post_to_x, last_post_cycle,
                    cycle_result, stopped_by >>

\* top of `while True:`: current_cycle and should_post_to_x are computed and
\* monitor_and_process_bills is called
BeginScan ==
    /\ mpc = "top"
    /\ mpc' = "scan"
    /\ current_cycle' = clock
    /\ should_post_to_x' = (cli_post_to_x /\ (last_post_cycle = NoPostCycle
                                               \/ clock > last_post_cycle))
    /\ UNCHANGED << pipeline, call, fetching, clock, cli_post_to_x, last_post_cycle,
                    cycle_result, stopped_by >>

\* variant: no `except Exception` inside the loop, an error ends the process
AfterScan_uncaught(outcome) ==
    IF outcome = "raised" THEN << "stopped", "error" >> ELSE << "wait", "none" >>

\* where the loop goes when the scan has ended: after a return and after an
\* exception alike it goes to countdown_timer
AfterScan(outcome) == << "wait", "none" >>

\* monitor_and_process_bills returns (posting_occurred) or raises
EndScan(outcome, posting_occurred) ==
    /\ mpc = "scan"
    /\ outcome \in {"returned", "raised"}
    /\ posting_occurred \in (IF outcome = "returned" /\ should_post_to_x
                             THEN BOOLEAN ELSE {FALSE})
    /\ last_post_cycle' = IF posting_occurred THEN current_cycle ELSE last_post_cycle
    /\ cycle_result' = outcome
    /\ mpc' = AfterScan(outcome)[1]
    /\ stopped_by' = AfterScan(outcome)[2]
    /\ UNCHANGED << pipeline, call, fetching, clock, cli_post_to_x, current_cycle,
                    should_post_to_x >>

\* countdown_timer(monitoring_interval) has run down: one interval has passed,
\* or two when the scan itself took long, or none in terms of time.time()
\* when the wall clock was set back meanwhile
EndWait(d) ==
    /\ mpc = "wait"
    /\ mpc' = "top"
    /\ clock' = Min(clock + d, MaxClock)
    /\ UNCHANGED << pipeline, call, fetching, cli_post_to_x, last_post_cycle,
                    current_cycle, should_post_to_x, cycle_result, stopped_by >>

\* Ctrl+C: `except KeyboardInterrupt: return 0`
KeyboardInterrupt ==
    /\ mpc \in {"top", "scan", "wait"}
    /\ mpc' = "stopped"
    /\ stopped_by' = "user"
    /\ UNCHANGED << pipeline, call, fetching, clock, cli_post_to_x, last_post_cycle,
                    current_cycle, should_post_to_x, cycle_result >>

\* the steps of the loop itself
LoopStepMain ==
    \/ BeginScan
    \/ \E outcome \in {"returned", "raised"}, posting_occurred \in BOOLEAN :
            EndScan(outcome, posting_occurred)
    \/ \E d \in {0, 1, 2} : EndWait(d)

NextMain == LoopStepMain \/ KeyboardInterrupt

SpecMain == InitMain /\ [][NextMain]_vars

\* the loop keeps running as long as it can
FairSpecMain == SpecMain /\ WF_vars(LoopStepMain)

\* ---- the texts handed to X ------------------------------------------------
\* Strings are followed by their lengths: the texts are built by concatenation
\* and slicing, whose lengths depend on the lengths of the parts only.
\* `280`, the character limit of X
XLimit == 280

\* len(s[:n]) for a string of length len
SliceLen(len, n) == IF n >= 0 THEN Min(len, n) ELSE IF len + n > 0 THEN len + n ELSE 0

\* the fixed part of the text of build_x_post_text: five labels, four newlines
LabelsLen ==
    Len("Bill Number: ") + 1 + Len("Date Introduced: ") + 1 + Len("Sponsor: ") + 1
      + Len("Summary: ") + 1 + Len("Link: ")

\* XPoster.build_x_post_text (congress_x_post_processor): the length of the
\* text it returns for fields of the given lengths
build_x_post_text(bill_number, date_introduced, sponsor, summary, link) ==
    LET text == LabelsLen + bill_number + date_introduced + sponsor + summary + link
        base_length == LabelsLen + bill_number + date_introduced + sponsor + link
        available_for_summary == XLimit - base_length - 10
        max_summary == XLimit - base_length + summary - 20
    IN  IF text <= XLimit THEN text
        ELSE IF available_for_summary > 20
          THEN base_length + SliceLen(summary, available_for_summary - 3) + 3
        ELSE IF max_summary > 10
          THEN base_length + SliceLen(summary, max_summary - 3) + 3
        ELSE SliceLen(text, 277) + 3

\* the main tweet of process_bills_into_posts for a bill count of the given
\* number of digits: date_str has 10 characters, time_str 8; then
\* `if len(tweet_text) > 280: tweet_text = tweet_text[:277] + "..."`
tweet_text(digits) ==
    LET raw == Len("Introduced Legislation Detected ") + 10 + Len(" - ") + 8 + Len(". ")
                 + digits
                 + Len(" bills discovered. See images for details or visit congress.gov.")
    IN  IF raw > XLimit THEN SliceLen(raw, 277) + 3 ELSE raw

\* the lengths the fields are taken from; the summary has up to MaxSummary
\* characters, the bill count up to MaxDigits digits
MaxSummary == 300

MaxDigits == 3

PostFields ==
    { << 8, 10, sponsor, summary, link >> :
        sponsor \in {20, 120}, summary \in 0..MaxSummary, link \in {70, 110} }

InitText ==
    /\ PipelineAtRest
    /\ FetchAtRest
    /\ LoopAtRest
    /\ call \in { Pending("build_x_post_text", f) : f \in PostFields }
                  \cup { Pending("create_tweet", << n >>) : n \in 1..MaxDigits }

BuildText ==
    Returns("build_x_post_text",
            build_x_post_text(call.arg[1], call.arg[2], call.arg[3], call.arg[4], call.arg[5]))

CreateTweet == Returns("create_tweet", tweet_text(call.arg[1]))

NextText == BuildText \/ CreateTweet

SpecText == InitText /\ [][NextText]_vars

\* ---- the images of a batch and the media of its tweets --------------------
\* A list of bills is followed by its length, an image by the slice
\* << start_idx, end_idx >> of the list it shows (bills_data[start_idx:end_idx]).
\* `max_images = 4`, `bills_per_image = 15`
max_images == 4

bills_per_image == 15

\* variant: the number of images is not capped by max_images
NumImages_uncapped(total_bills) ==
    IF total_bills <= bills_per_image THEN 1
    ELSE (total_bills + bills_per_image - 1) \div bills_per_image

\* `num_images` of _create_image_set
NumImages(total_bills) ==
    IF total_bills <= bills_per_image THEN 1
    ELSE Min((total_bills + bills_per_image - 1) \div bills_per_image, max_images)

\* variant: the last image is cut at bills_per_image like the others
ChunkEnd_no_aggregate(image_num, num_images, total_bills) ==
    Min((image_num - 1) * bills_per_image + bills_per_image, total_bills)

\* `end_idx` of _create_image_set: the last image takes all remaining bills
ChunkEnd(image_num, num_images, total_bills) ==
    IF image_num = num_images THEN total_bills
    ELSE Min((image_num - 1) * bills_per_image + bills_per_image, total_bills)

\* `for image_num in range(1, num_images + 1)`, with `if not bills_chunk: break`
RECURSIVE ImageLoop(_, _, _, _)
ImageLoop(image_num, num_images, total_bills, image_paths) ==
    IF image_num > num_images THEN image_paths
    ELSE LET start_idx == (image_num - 1) * bills_per_image
             end_idx == ChunkEnd(image_num, num_images, total_bills)
         IN  IF start_idx >= end_idx THEN image_paths
             ELSE ImageLoop(image_num + 1, num_images, total_bills,
                            Append(image_paths, << start_idx, end_idx >>))

\* XPoster._create_image_set for a list of total_bills bills
create_image_set(total_bills) ==
    IF total_bills = 0 THEN << >>
    ELSE ImageLoop(1, NumImages(total_bills), total_bills, << >>)

\* XPoster.create_multiple_bills_pngs for a de-duplicated list of n bills:
\* main_bills = bills_data[:60], reply_bills = bills_data[60:]; the slices of
\* the reply images are given as slices of the whole list
create_multiple_bills_pngs(n) ==
    LET max_bills_main_thread == max_images * bills_per_image
        main_bills == Min(n, max_bills_main_thread)
        reply_bills == n - main_bills
        reply == IF reply_bills > 0 THEN create_image_set(reply_bills) ELSE << >>
    IN  [main |-> IF n = 0 THEN << >> ELSE create_image_set(main_bills),
         reply |-> [i \in 1..Len(reply) |->
                       << reply[i][1] + max_bills_main_thread,
                          reply[i][2] + max_bills_main_thread >>]]

\* process_bills_into_posts, "Post to X.com": the lengths of the media id
\* lists of its create_tweet calls, when fail_main and fail_reply of the
\* uploads fail.  The reply tweet is created only with at least one media id;
\* without create_png there are no images and the one tweet is text only.
tweet_media(n, create_png, fail_main, fail_reply) ==
    LET images == IF create_png THEN create_multiple_bills_pngs(n)
                  ELSE [main |-> << >>, reply |-> << >>]
        media_ids == IF Len(images.main) > fail_main THEN Len(images.main) - fail_main ELSE 0
        reply_media_ids == IF Len(images.reply) > fail_reply
                           THEN Len(images.reply) - fail_reply ELSE 0
    IN  << media_ids >> \o (IF reply_media_ids > 0 THEN << reply_media_ids >> ELSE << >>)

\* process_bills_into_posts from "Post to X.com" to its return, for a batch
\* of n bills.  client_ok: get_x_api_client and get_x_api return; main_ok,
\* reply_ok: the create_tweet call of the main tweet, of the reply tweet,
\* returns; fail_reply: as above.  main_tweet tells whether the main tweet was
\* created, posting_successful is the flag returned, archived tells whether
\* archive_images was called.
posting(n, create_png, p2x, client_ok, main_ok, fail_reply, reply_ok) ==
    LET images == IF create_png THEN create_multiple_bills_pngs(n)
                  ELSE [main |-> << >>, reply |-> << >>]
        reply_media_ids == IF Len(images.reply) > fail_reply
                           THEN Len(images.reply) - fail_reply ELSE 0
        main_created == p2x /\ client_ok /\ main_ok
        reply_tried == /\ main_created
                       /\ Len(images.main) > 0
                       /\ Len(images.reply) > 0
                       /\ reply_media_ids > 0
        flag == main_created /\ (reply_tried => reply_ok)
    IN  [main_tweet |-> main_created,
         posting_successful |-> flag,
         images |-> Len(images.main) + Len(images.reply),
         archived |-> flag /\ Len(images.main) + Len(images.reply) > 0]

\* post_posts_to_x: image_paths[:4] are uploaded; post number post_idx
\* (0-based) gets the one media id of its image, if there is one
post_posts_to_x(posts, image_paths, fails) ==
    LET limited == Min(image_paths, 4)
        uploaded == IF limited > fails THEN limited - fails ELSE 0
    IN  [post \in 1..posts |-> IF uploaded > 0 /\ post - 1 < uploaded THEN 1 ELSE 0]

\* batches of up to MaxBills bills; up to MaxPosts posts
MaxBills == 125

MaxPosts == 3

InitImages ==
    /\ PipelineAtRest
    /\ FetchAtRest
    /\ LoopAtRest
    /\ call \in { Pending("create_multiple_bills_pngs", << n >>) : n \in 0..MaxBills }
          \cup { Pending("tweet_media", << n, png, fm, fr >>) :
                    n \in 1..MaxBills, png \in BOOLEAN,
                    fm \in {0, 1, max_images}, fr \in {0, 1} }
          \cup { Pending("posting", << n, png, p2x, client_ok, main_ok, fr, reply_ok >>) :
                    n \in {1, MaxBills}, png \in BOOLEAN, p2x \in BOOLEAN,
                    client_ok \in BOOLEAN, main_ok \in BOOLEAN,
                    fr \in {0, max_images}, reply_ok \in BOOLEAN }
          \cup { Pending("post_posts_to_x", << np, ni, f >>) :
                    np \in 0..MaxPosts, ni \in 0..(max_images + 2), f \in {0, 1} }

CreateImages ==
    Returns("create_multiple_bills_pngs", create_multiple_bills_pngs(call.arg[1]))

PostThread ==
    Returns("tweet_media", tweet_media(call.arg[1], call.arg[2], call.arg[3], call.arg[4]))

PostPosts ==
    Returns("post_posts_to_x", post_posts_to_x(call.arg[1], call.arg[2], call.arg[3]))

Posting ==
    Returns("posting", posting(call.arg[1], call.arg[2], call.arg[3], call.arg[4],
                               call.arg[5], call.arg[6], call.arg[7]))

NextImages == CreateImages \/ PostThread \/ PostPosts \/ Posting

SpecImages == InitImages /\ [][NextImages]_vars

\* ---- the order of the batch ----------------------------------------------
\* The tail of fetch_recent_bills on the list all_bills the scans built; a
\* bill is << congress, type, number >> as in Keys.
AllTypes == {"HR", "HRES", "HJRES", "HCONRES", "S", "SRES", "SJRES", "SCONRES"}

\* list.sort is stable: b goes behind every element it does not sort before
RECURSIVE InsertSorted(_, _)
InsertSorted(b, sorted) ==
    IF sorted = << >> THEN << b >>
    ELSE IF SortsBefore(b, Head(sorted)) THEN << b >> \o sorted
    ELSE << Head(sorted) >> \o InsertSorted(b, Tail(sorted))

RECURSIVE StableSort(_)
StableSort(l) ==
    IF l = << >> THEN << >>
    ELSE InsertSorted(l[Len(l)], StableSort(SubSeq(l, 1, Len(l) - 1)))

IsHRBill(b) == b[2] = "HR"

IsOtherBill(b) == b[2] # "HR"

\* hr_bills + other_bills, each sorted, cut at limit
bills_batch(found, limit) ==
    LET hr_bills == StableSort(SelectSeq(found, IsHRBill))
        other_bills == StableSort(SelectSeq(found, IsOtherBill))
        sorted_bills == hr_bills \o other_bills
    IN  SubSeq(sorted_bills, 1, Min(limit, Len(sorted_bills)))

\* lists of up to MaxFound found bills
MaxFound == 3

FoundBills == { << CongressId, t, n >> : t \in AllTypes, n \in {1, 2} }

FoundLists == UNION { [1..n -> FoundBills] : n \in 0..MaxFound }

InitSort ==
    /\ PipelineAtRest
    /\ FetchAtRest
    /\ LoopAtRest
    /\ call \in { Pending("fetch_recent_bills", << l, limit >>) :
                    l \in FoundLists, limit \in {2, FetchLimit} }

SortAndCut == Returns("fetch_recent_bills", bills_batch(call.arg[1], call.arg[2]))

SpecSort == InitSort /\ [][SortAndCut]_vars

\* ---- the start of a scan ------------------------------------------------
\* get_dynamic_start_number on its own: on every content of the bills table,
\* for the types and the fallback starts fetch_recent_bills passes, with a
\* query that succeeds or raises.
Stores == [Keys -> {<< >>, << "row" >>}]

Fallbacks == {HRFallbackStart, SFallbackStart, 300, 200, 100}

InitStart ==
    /\ PipelineAtRest
    /\ FetchAtRest
    /\ LoopAtRest
    /\ call \in { Pending("get_dynamic_start_number", << d, t, f, fails >>) :
                    d \in Stores, t \in BillTypes, f \in Fallbacks, fails \in BOOLEAN }

DynamicStart ==
    Returns("get_dynamic_start_number",
            get_dynamic_start_number(call.arg[1], call.arg[2], call.arg[3], call.arg[4]))

SpecStart == InitStart /\ [][DynamicStart]_vars

\* ---- the downward scan of one type ------------------------------------------
\* One scan of fetch_recent_bills on its own: on every state of upstream and
\* of the bills table, for each type, with a start query that succeeds or
\* raises and any set of bills whose fetch fails.
InitScan ==
    /\ PipelineAtRest
    /\ FetchAtRest
    /\ LoopAtRest
    /\ call \in { Pending("scan", [up |-> up, d |-> d, t |-> t, qfail |-> qfail,
                                   missed |-> missed]) :
                    up \in [Keys -> UpstreamStates], d \in Stores, t \in BillTypes,
                    qfail \in BOOLEAN, missed \in SUBSET Keys }

\* `start_num = get_dynamic_start_number(...)` of a scan
StartNum(arg) == get_dynamic_start_number(arg.d, arg.t, FallbackStart(arg.t), arg.qfail)

ScanOneType == Returns("scan", ScanType(call.arg.up, call.arg.t, StartNum(call.arg), call.arg.missed))

SpecScan == InitScan /\ [][ScanOneType]_vars

\* ---- properties ----------------------------------------------------------
\* the bill a process is working on in its guard loop or its store loop
Cur(p) == IF pc[p] = "guard" THEN bills[p][idx[p]] ELSE bills_data[p][idx[p]]

\* the batch of the cycle has been decided (the guard loop is over)
PastGuard(p) == pc[p] \in {"post", "store_check", "store_insert", "done"}

\* the bills the guard loop has taken so far
Taken(p) == SeqRange(house_bills[p] \o senate_bills[p])

C2_TrueThenFalse ==
    [][ \A p \in Procs :
          /\ (pc[p] = "store_insert" /\ db[Cur(p)] = << >> /\ StoreInsert(p, TRUE))
                => /\ trueCnt[Cur(p)] = 0
                   /\ trueCnt'[Cur(p)] = 1
                   /\ Len(db'[Cur(p)]) = 1
                   /\ \A j \in Keys \ {Cur(p)} : db'[j] = db[j]
          /\ (pc[p] = "store_check" /\ db[Cur(p)] # << >> /\ StoreCheck(p, TRUE))
                => /\ trueCnt[Cur(p)] = 1
                   /\ falseCnt'[Cur(p)] = falseCnt[Cur(p)] + 1
                   /\ trueCnt' = trueCnt
                   /\ db' = db ]_vars

\* C2 witness: a key for which one call returned True and a later call False.
C2_Witness ==
    \E k \in Keys : trueCnt[k] = 1 /\ falseCnt[k] >= 1 /\ Len(db[k]) = 1

C5_PublishedAtMostOnce == \A k \in Keys : published[k] <= 1

\* C6 as stated: every bill posted in the current cycle already has the
\* record this cycle inserted.
C6_RecordedBeforePosted ==
    \A p \in Procs :
        posting_successful[p] => SeqRange(bills_data[p]) \subseteq stored[p]

\* C7: a failed existence check or insert is never taken for "already seen":
\* store_in_database raises (it does not return False), the bill is not put
\* among the duplicates, and the table is left as it was, so that the bill is
\* still unrecorded.
C7_ErrorIsNotSeen ==
    [][ \A p \in Procs :
          /\ (pc[p] = "guard" /\ ~ aggregate_all[p] /\ GuardStep(p, FALSE))
                => /\ Cur(p) \in errs'[p]
                   /\ dupes' = dupes
                   /\ db' = db
          /\ (pc[p] = "store_check" /\ StoreCheck(p, FALSE))
                => /\ Cur(p) \in errs'[p]
                   /\ falseCnt' = falseCnt
                   /\ dupes' = dupes
                   /\ db' = db
          /\ (pc[p] = "store_insert" /\ StoreInsert(p, FALSE))
                => /\ Cur(p) \in errs'[p]
                   /\ trueCnt' = trueCnt /\ falseCnt' = falseCnt
                   /\ stored' = stored
                   /\ db' = db ]_vars

\* C7 witness: a cycle is complete, the store failed for one of its bills, and
\* that bill has no record and was not counted as a duplicate.
C7_Witness ==
    \E p \in Procs, k \in Keys :
        /\ pc[p] = "done"
        /\ k \in errs[p]
        /\ k \notin dupes[p]
        /\ db[k] = << >>

\* a step of process p in its guard loop or its store loop
LoopStep(p) ==
    \E b \in BOOLEAN : GuardStep(p, b) \/ StoreCheck(p, b) \/ StoreInsert(p, b)

C9_AppendOnly ==
    [][ \A k \in Keys :
          /\ Len(db'[k]) <= 1
          /\ Len(db[k]) <= Len(db'[k])
          /\ SubSeq(db'[k], 1, Len(db[k])) = db[k] ]_vars

\* C9 witness: a key has its one record, written by one process, and the
\* insert of another process for the same key was refused.
C9_Witness ==
    \E p \in Procs, q \in Procs, k \in Keys :
        /\ p # q
        /\ k \in stored[p]
        /\ pc[q] = "done"
        /\ k \in errs[q] /\ k \in SeqRange(bills_data[q])
        /\ Len(db[k]) = 1

\* an interruption leaves the table as it is, and no bill the cycle had taken
\* but not yet stored has a record
InterruptLeavesNoTrace ==
    \A p \in Procs :
        Interrupt(p) => /\ db' = db
                        /\ \A k \in Taken(p) \ stored[p] : db'[k] = << >>

C11_SameBillIffSameKey ==
    Returned("process_bills_into_posts")
        => /\ SeqRange(call.res) = SeqRange(call.arg)
           /\ \A i \in 1..Len(call.res), j \in 1..Len(call.res) :
                 call.res[i] = call.res[j] => i = j

\* C12 as stated: every bill of the batch a discovery cycle hands downstream
\* has an introduction-stage action as its latest action; no bill whose latest
\* action is a later-stage action is in the batch.
C12_BatchIsIntroduced ==
    \A p \in Procs :
        ~ aggregate_all[p]
            => \A k \in SeqRange(bills_data[p]) : upstream[k] = "introduced"

SelectedTier(l) ==
    IF SeqRange(SelectSeq(l, IsCodedIntroReferral)) # {} THEN SeqRange(SelectSeq(l, IsCodedIntroReferral))
    ELSE IF SeqRange(SelectSeq(l, IsFloor17000)) # {} THEN SeqRange(SelectSeq(l, IsFloor17000))
    ELSE IF SeqRange(SelectSeq(l, IsIntroReferral)) # {} THEN SeqRange(SelectSeq(l, IsIntroReferral))
    ELSE IF SeqRange(SelectSeq(l, IsIntroducedType)) # {} THEN SeqRange(SelectSeq(l, IsIntroducedType))
    ELSE SeqRange(SelectSeq(l, HasIntroKeyword))

\* C15 as stated: the returned action has the smallest actionDate of all the
\* actions of the tier it was selected from, the keyword scan included.
C15_EarliestOfTier ==
    Returned("find_introduction_action") =>
        \A a \in SelectedTier(call.arg) : call.res.actionDate <= a.actionDate

\* C16 as stated: when the HR scan has returned, every candidate that exists
\* upstream and whose fetches did not fail and whose record is well-formed is
\* in the batch: the failures of other candidates have not ended the scan.
C16_OthersStillProcessed ==
    fpc = "returned"
        => \A n \in HRCandidates : (n <= highest /\ n \notin failed) => n \in all_bills

\* C17 as stated: a transient failure of the detail request is not reported
\* to the scan as "bill not found".
C17_TransientIsNotNotFound ==
    (fpc \in {"scan", "returned"} /\ response[1] = "transient") => scan_log # "not_found"

\* C18 as stated: the scan terminates, even if a request never returns.
C18_ScanTerminates == <>(fpc = "returned")

\* C19: in continuous mode a scan that raises does not end the loop: the loop
\* ends only by a user interrupt, and after a scan that raised another scan is
\* started, unless the user interrupts first.
C19_ErrorDoesNotEndLoop ==
    /\ [](mpc = "stopped" => stopped_by = "user")
    /\ [](cycle_result = "raised" => <>(mpc = "scan" \/ stopped_by = "user"))

\* C19 witness: the last scan raised and the next scan is running.
C19_Witness == mpc = "scan" /\ cycle_result = "raised" /\ stopped_by = "none"

\* C20 as stated: every text handed to the publisher has at most 280
\* characters: the text build_x_post_text returns, whatever the lengths of its
\* fields, and the tweet text passed to create_tweet.
C20_TextWithinLimit ==
    (Returned("build_x_post_text") \/ Returned("create_tweet")) => call.res <= XLimit

\* C21: every create_tweet call carries at most 4 media ids: the main tweet
\* and the reply tweet of process_bills_into_posts, whatever the number of
\* bills, and every post of post_posts_to_x.
C21_AtMostFourMedia ==
    (Returned("tweet_media") \/ Returned("post_posts_to_x"))
        => \A i \in 1..Len(call.res) : call.res[i] <= 4

\* C21 witness: a batch of more than 120 bills was posted as a main tweet and
\* a reply tweet with 4 media ids each.
C21_Witness ==
    /\ Returned("tweet_media")
    /\ call.arg[1] > 2 * max_images * bills_per_image
    /\ call.res = << 4, 4 >>

\* the bills (positions of the list, from 0) an image shows
Shown(image) == image[1]..(image[2] - 1)

\* C26: every bill of the list is in exactly one image, in input order: the
\* first 60 bills are in the main thread, in at most 4 images of at most 15
\* bills each; the others are in the reply thread, in at most 4 images, of
\* which all but the last have at most 15 bills and the last has the rest.
C26_EveryBillInOneImage ==
    Returned("create_multiple_bills_pngs") =>
        LET n == call.arg[1]
            all == call.res.main \o call.res.reply
        IN  /\ Len(call.res.main) <= 4 /\ Len(call.res.reply) <= 4
            /\ \A b \in 0..(n - 1) :
                  Cardinality({ i \in 1..Len(all) : b \in Shown(all[i]) }) = 1
            /\ \A i \in 1..Len(all) : all[i][1] < all[i][2] /\ all[i][2] <= n
            /\ \A i \in 1..(Len(all) - 1) : all[i][2] = all[i + 1][1]
            /\ \A i \in 1..Len(call.res.main) :
                  /\ call.res.main[i][2] <= 60
                  /\ call.res.main[i][2] - call.res.main[i][1] <= 15
            /\ \A i \in 1..Len(call.res.reply) :
                  /\ call.res.reply[i][1] >= 60
                  /\ i < Len(call.res.reply)
                        => call.res.reply[i][2] - call.res.reply[i][1] <= 15

\* C26 witness: a list whose reply thread has 4 images, the last of them with
\* more than 15 bills.
C26_Witness ==
    /\ Returned("create_multiple_bills_pngs")
    /\ Len(call.res.main) = 4
    /\ Len(call.res.reply) = 4
    /\ call.res.reply[4][2] - call.res.reply[4][1] > 15
    /\ call.res.reply[4][2] = call.arg[1]

\* how often a bill occurs in a list
Count(l, b) == Cardinality({ i \in DOMAIN l : l[i] = b })

\* the order of the batch: HR before the others, House types before Senate
\* types, numbers descending within a type
MustPrecede(a, b) ==
    \/ a[2] = "HR" /\ b[2] # "HR"
    \/ IsHouse(a[2]) /\ ~ IsHouse(b[2])
    \/ a[2] = b[2] /\ a[3] > b[3]

\* C22: the batch is the first `limit` elements of an arrangement of the found
\* bills with the HR bills first in descending number, the other bills grouped
\* by type in descending number, and every House type before every Senate
\* type.
C22_BatchOrder ==
    Returned("fetch_recent_bills") =>
        LET found == call.arg[1]
            batch == call.res
        IN  /\ Len(batch) = Min(call.arg[2], Len(found))
            /\ \A b \in FoundBills : Count(batch, b) <= Count(found, b)
            /\ \A i, j \in DOMAIN batch : i < j => ~ MustPrecede(batch[j], batch[i])
            /\ \A i, j, k \in DOMAIN batch :
                  i < j /\ j < k /\ batch[i][2] = batch[k][2] => batch[j][2] = batch[i][2]
            /\ \A b \in FoundBills : Count(batch, b) < Count(found, b) =>
                  /\ \A i \in DOMAIN batch : ~ MustPrecede(b, batch[i])
                  /\ (\E i \in DOMAIN batch : batch[i][2] = b[2])
                        => batch[Len(batch)][2] = b[2]

\* C22 witness: three bills found in the order of the scans (a Senate bill,
\* then a House resolution, then an HR bill) and cut to a batch of two.
C22_Witness ==
    /\ Returned("fetch_recent_bills")
    /\ call.arg[2] = 2
    /\ call.arg[1] = << << CongressId, "S", 2 >>, << CongressId, "HRES", 1 >>,
                        << CongressId, "HR", 1 >> >>
    /\ call.res = << << CongressId, "HR", 1 >>, << CongressId, "HRES", 1 >> >>

\* C23: in continuous mode posting is enabled for a scan only if --post-to-x
\* was given and no posting has succeeded in the scan's cycle index or a later
\* one; a scan that ends with a successful posting is in a cycle index above
\* that of every earlier posting, so that no cycle index has two; and
\* last_post_cycle never decreases.
C23_OncePerCycle ==
    /\ [](mpc = "scan" /\ should_post_to_x
            => /\ cli_post_to_x
               /\ (last_post_cycle = NoPostCycle \/ current_cycle > last_post_cycle))
    /\ [][EndScan("returned", TRUE) => current_cycle > last_post_cycle]_vars
    /\ [][last_post_cycle' >= last_post_cycle]_vars

\* C23 witness: a scan runs in the cycle index of the last successful posting,
\* with posting disabled although --post-to-x was given.
C23_Witness ==
    /\ mpc = "scan"
    /\ cli_post_to_x
    /\ last_post_cycle = current_cycle
    /\ ~ should_post_to_x

\* the numbers recorded in the table d for the type t in congress 119
Recorded(d, t) == { k[3] : k \in { x \in Keys : x[1] = CongressId /\ x[2] = t
                                                 /\ bill_exists(d, x) } }

FirstOccurrences(l) ==
    { i \in DOMAIN l :
        \/ formatted_bill_number(l[i]) = NoBillId
        \/ \A j \in 1..(i - 1) : formatted_bill_number(l[j]) # formatted_bill_number(l[i]) }

\* C25: the in-batch de-duplication keeps of every formatted_bill_number
\* exactly the first bill, in the order of the input; no two bills of the
\* result share a formatted_bill_number; applying it to its result changes
\* nothing.
C25_KeepsFirstOccurrences ==
    Returned("process_bills_into_posts") =>
        LET kept == FirstOccurrences(call.arg)
            nth(n) == CHOOSE i \in kept : Cardinality({ j \in kept : j <= i }) = n
        IN  /\ Len(call.res) = Cardinality(kept)
            /\ \A n \in 1..Len(call.res) : call.res[n] = call.arg[nth(n)]
            /\ \A i, j \in 1..Len(call.res) :
                  /\ i # j
                  /\ formatted_bill_number(call.res[i]) # NoBillId
                  => formatted_bill_number(call.res[i]) # formatted_bill_number(call.res[j])
            /\ Dedup(call.res, {}) = call.res

\* C25 witness: of HR 1 given twice with different data around a bill without
\* formatted_bill_number, the first one and the bill without are kept.
C25_Witness ==
    /\ Returned("process_bills_into_posts")
    /\ call.arg = << <<118, "HR", 1>>, <<119, "", 0>>, <<119, "HR", 1>> >>
    /\ call.res = << <<118, "HR", 1>>, <<119, "", 0>> >>

\* C27 as stated: with post_to_x=True a cycle records a bill only if the
\* tweet of its batch was created in that cycle; a bill whose posting failed
\* is left unrecorded.
C27_RecordedOnlyIfPosted ==
    \A p \in Procs :
        post_to_x[p] /\ ~ posting_successful[p] => stored[p] = {}

\* C28 as stated: every bill of the scanned type that exists upstream with a
\* number in the scan range, was introduced inside the look-back window and
\* was fetched without error is in the list the scan builds, whatever the
\* other numbers of the range are like.
C28_ScanFindsEveryRecentBill ==
    Returned("scan") =>
        \A k \in Keys :
            /\ k[1] = CongressId /\ k[2] = call.arg.t
            /\ k[3] <= StartNum(call.arg) /\ k[3] > RangeStop(call.arg.t)
            /\ call.arg.up[k] \in {"introduced", "passed"}
            /\ k \notin call.arg.missed
            => k \in call.res

\* C29 as stated: when an action of the tier the result is taken from has an
\* actionDate, the returned action has one: an undated action is not preferred
\* over a dated one.
C29_DatedPreferred ==
    Returned("find_introduction_action") =>
        ((\E a \in SelectedTier(call.arg) : a.actionDate # NoActionDate)
            => call.res.actionDate # NoActionDate)

\* C30 as stated: the flag process_bills_into_posts returns is True exactly
\* when the main tweet was created during the call, whatever happens to the
\* reply thread afterwards; and the images, if there are any, are archived
\* exactly when the flag is True.
C30_FlagIffMainTweet ==
    Returned("posting") =>
        /\ call.res.posting_successful <=> call.res.main_tweet
        /\ call.res.archived <=> (call.res.posting_successful /\ call.res.images > 0)

====
